---- MODULE Spec2Model ----
(***************************************************************************)
(* KRYV-MCP host agent (oracle-agent.py): collectors, push_context,        *)
(* check_server and the scheduler loop of main().                          *)
(*                                                                         *)
(* Time is the wall clock in seconds.  A timestamp rendered by             *)
(* datetime.fromtimestamp(t).isoformat() is modelled by the local wall     *)
(* time it denotes (t plus the UTC offset in force at t): ISO-8601 strings *)
(* of one fixed layout compare as those numbers do.                        *)
(***************************************************************************)
EXTENDS Integers, Sequences, FiniteSets, TLC

VARIABLES
  now,          \* wall clock, seconds (time.time(), datetime.now())
  tz,           \* local time zone of the host: [transition, before, after]
  fs,           \* files under the home directory, in rglob order
  psutil,       \* whether `import psutil` succeeds
  PRIVACY_MODE, \* src line 50
  CLIENT_ID,    \* src line 49
  pc,           \* position of main(): "check","startup","register","pending","running",
                \* "sleep","exited"; the harness specifications add their own positions
  jobs,         \* schedule.jobs: sequence of Job records, in registration order
  queue,        \* sorted(runnable_jobs) still to run in this run_pending()
  cur,          \* the job function being executed and its position
  executing,    \* identities of the job functions entered and not yet returned
  cache,        \* LOCAL_STORE: one file per source
  collected,    \* value returned by the most recent collector call
  healthy,      \* value returned by the most recent check_server()
  last,         \* record of the latest push_context call of the job run in progress (or the last one)
  stored,       \* per source, the data and time of the most recent successful store
  jobLog,       \* deliveries of the job run in progress (or the last one): source, push failed
  startupLog,   \* sources delivered by the start-up full sync
  startupSyncs, \* number of full syncs begun by main() before the loop
  registered_at,\* time of the schedule.every(...) calls, -1 before
  anyScheduled, \* whether run_pending() has started any job yet
  tick,         \* record of the current run_pending(): time, next_run snapshot, jobs run
  probe,        \* the answer the health endpoint gives to the next request
  horizon       \* clock value up to which the loop is explored

vars == <<now, tz, fs, psutil, PRIVACY_MODE, CLIENT_ID, pc, jobs, queue, cur,
          executing, cache, collected, healthy, last, stored, jobLog,
          startupLog, startupSyncs, registered_at, anyScheduled, tick, probe,
          horizon>>

----------------------------------------------------------------------------
(* Bounds of the model *)

MaxTime == 400        \* Spec explores the loop up to this clock value
MaxLongTime == 1860   \* SpecLong explores the loop up to this clock value
MaxListed == 3        \* files created one by one in the file-system specification
BulkFiles == 49       \* files created together (one archive extracted)
SlowScan == 130       \* duration of a slow directory scan, seconds

(* Program constants *)

SleepSeconds == 10
PushTimeout == 10
HealthTimeout == 5
CpuInterval == 1
QuickMinutes == 1
FullMinutes == 5
HealthMinutes == 30
MaxRecent == 50
MaxNotes == 20
DaySeconds == 86400

----------------------------------------------------------------------------
(* Sequences *)

Take(s, n) == SubSeq(s, 1, IF Len(s) < n THEN Len(s) ELSE n)

\* insert x into the sequence s, sorted by descending `modified`, after every
\* element whose key is >= x's: list.sort(key=..., reverse=True) is stable
RECURSIVE InsertDesc(_, _)
InsertDesc(x, s) ==
  IF s = <<>> THEN <<x>>
  ELSE IF Head(s).modified >= x.modified THEN <<Head(s)>> \o InsertDesc(x, Tail(s))
       ELSE <<x>> \o s

RECURSIVE SortDescFrom(_, _, _)
SortDescFrom(s, k, acc) ==
  IF k > Len(s) THEN acc
  ELSE SortDescFrom(s, k + 1, InsertDesc(s[k], acc))

\* variant: the list is left in scan order
Unsorted(s) == s

\* files.sort(key=lambda x: x["modified"], reverse=True)
SortDesc(s) == SortDescFrom(s, 1, <<>>)

----------------------------------------------------------------------------
(* Collectors *)

UTC == [transition |-> 0, before |-> 0, after |-> 0]

\* datetime.fromtimestamp(t): naive local time of the POSIX timestamp t
fromtimestamp(t) == t + (IF t < tz.transition THEN tz.before ELSE tz.after)

HomeFilesDirs == {"Documents", "Downloads", "Desktop"}
NoteDirs == {"Notes", "Documents", "Desktop"}
NoteExtensions == {".txt", ".md", ".markdown", ".text"}

FileEntry(f) ==
  [name |-> f.name, path |-> f.path, modified |-> fromtimestamp(f.mtime),
   type |-> f.suffix]

collect_local_files_unsorted(files, t) ==
  LET cutoff == t - DaySeconds
      Hit(f) == f.dir \in HomeFilesDirs /\ f.mtime > cutoff
      hits == SelectSeq(files, Hit)
  IN  [i \in 1..Len(hits) |-> FileEntry(hits[i])]

collect_local_files(files, t) ==
  LET found == collect_local_files_unsorted(files, t)
      sorted == SortDesc(found)
  IN  [recent_files |-> Take(sorted, MaxRecent),
       count |-> Len(found),
       watched_dirs |-> HomeFilesDirs]

NoteEntry(f) == [name |-> f.name, path |-> f.path, modified |-> fromtimestamp(f.mtime)]

collect_notes(files) ==
  LET Hit(f) == f.dir \in NoteDirs /\ f.suffix \in NoteExtensions
      hits == SelectSeq(files, Hit)
      found == [i \in 1..Len(hits) |-> NoteEntry(hits[i])]
      sorted == SortDesc(found)
  IN  [notes |-> Take(sorted, MaxNotes), count |-> Len(found)]

\* the values collect_system_info() can return
SystemInfoSamples ==
  IF psutil
  THEN {[cpu_percent |-> c, memory_percent |-> 40, disk_percent |-> 70,
         platform |-> "Linux", hostname |-> "vm"] : c \in {5, 95}}
  ELSE {[platform |-> "Linux", hostname |-> "vm",
         note |-> "install psutil for full stats"]}

\* psutil.cpu_percent(interval=1) blocks for the interval
SystemInfoDuration == IF psutil THEN CpuInterval ELSE 0

----------------------------------------------------------------------------
(* Local cache and delivery: push_context *)

Sources == {"system_info", "local_files", "local_notes"}

Absent == [kind |-> "absent"]
Partial == [kind |-> "partial"]
\* json.dump({**data, "updated_at": datetime.utcnow().isoformat()}, f): the keys
\* of data (no collector produces an updated_at key) and the UTC time
Json(data, t) == [kind |-> "json", data |-> data, updated_at |-> t]

\* outcomes of `with open(local_file, "w") as f: json.dump(..., f)`:
\* "ok"; open() raises (file untouched); open() has truncated the file and the
\* write raises (disk full), leaving an empty or partial file
WriteOutcomes == {"ok", "open_failed", "write_failed"}

Store(c, source, data, t, w) ==
  CASE w = "ok" -> [c EXCEPT ![source] = Json(data, t)]
    [] w = "open_failed" -> c
    [] w = "write_failed" -> [c EXCEPT ![source] = Partial]

\* variant: the cache write is guarded and its error swallowed
StoreErrorsSwallowed(w) == FALSE

\* an OSError of the cache write is not caught in push_context
StoreRaises(w) == w # "ok"

\* outcomes of requests.post(PUSH_URL, json=payload, timeout=10)
Response(status) == [kind |-> "response", status |-> status]
ConnectionError == [kind |-> "ConnectionError", status |-> 0]
Timeout == [kind |-> "Timeout", status |-> 0]
NoOutcome == [kind |-> "none", status |-> 0]
PostOutcomes == {Response(200), Response(304), Response(500), ConnectionError, Timeout}

\* requests.Response.ok: raise_for_status() raises for 400 <= status < 600 only
ok(res) == ~(400 <= res.status /\ res.status < 600)

Envelope(source, data) == [client_id |-> CLIENT_ID, source |-> source, data |-> data]

\* variant: the client identity is not tested
ShouldPushUnlessPrivacy == ~PRIVACY_MODE

\* if not PRIVACY_MODE and CLIENT_ID:
ShouldPush == ~PRIVACY_MODE /\ CLIENT_ID # ""

\* the requests issued by one push_context call that reached line 68
PostAttempts(source, data, o) == <<Envelope(source, data)>>

\* variant: the POST is not guarded, a network-level failure propagates
PostRaisesUncaught(o) == o.kind # "response"

\* `except requests.RequestException` catches every outcome of the POST
PostRaises(o) == FALSE

PushLog(o) ==
  CASE o.kind = "response" /\ ok(o) -> "pushed"
    [] o.kind = "response" /\ ~ok(o) -> "push_failed"
    [] OTHER -> "network_error"

PostElapsed(o) == IF o.kind = "Timeout" THEN PushTimeout ELSE 0

\* the effects of one call, in order
Effects(w, pushed) ==
  IF StoreRaises(w) THEN <<"cache_write_failed">>
  ELSE IF pushed THEN <<"cache_write", "post">> ELSE <<"cache_write">>

NoCall ==
  [source |-> "none", caller |-> "none", step |-> 0, data |-> [none |-> TRUE],
   written |-> "none", posts |-> <<>>, outcome |-> NoOutcome, raised |-> FALSE,
   effects |-> <<>>, log |-> "none", at |-> 0]

\* the record of push_context(source, data) called at time t with cache-write
\* outcome w and POST outcome o (o is read only when a POST is issued)
push_context(source, data, t, w, o) ==
  IF StoreRaises(w)
  THEN [source |-> source, caller |-> cur.fn, step |-> cur.step, data |-> data,
        written |-> w, posts |-> <<>>, outcome |-> NoOutcome, raised |-> TRUE,
        effects |-> Effects(w, FALSE), log |-> "none", at |-> t]
  ELSE IF ShouldPush
  THEN [source |-> source, caller |-> cur.fn, step |-> cur.step, data |-> data,
        written |-> w, posts |-> PostAttempts(source, data, o), outcome |-> o,
        raised |-> PostRaises(o), effects |-> Effects(w, TRUE),
        log |-> PushLog(o), at |-> t]
  ELSE [source |-> source, caller |-> cur.fn, step |-> cur.step, data |-> data,
        written |-> w, posts |-> <<>>, outcome |-> NoOutcome, raised |-> FALSE,
        effects |-> Effects(w, FALSE), log |-> "stored_locally", at |-> t]

----------------------------------------------------------------------------
(* check_server *)

\* outcomes of requests.get(f"{KRYV_SERVER}/health", timeout=5) and res.json():
\* body is "object" (a JSON object with version and db), "bare" (a JSON object
\* lacking both), "array" (JSON, not an object) or "invalid" (not JSON, or empty)
Bodies == {"object", "bare", "array", "invalid"}
Statuses == {200, 201, 204, 300, 304, 400, 401, 403, 404, 429, 500, 502, 503}
HealthOutcomes ==
  {[kind |-> "response", status |-> st, body |-> b] : st \in Statuses, b \in Bodies}
    \cup {[kind |-> k, status |-> 0, body |-> "invalid"] : k \in {"ConnectionError", "Timeout"}}

\* variant: the body is not parsed
check_server_status_only(o) == o.kind = "response" /\ ok(o)

\* res.json() raises on a body that is not JSON; data.get raises on a non-object;
\* `except Exception` turns both into False
check_server(o) ==
  IF o.kind # "response" THEN FALSE
  ELSE IF ok(o) THEN o.body \in {"object", "bare"}
  ELSE FALSE

HealthElapsed(o) == IF o.kind = "Timeout" THEN HealthTimeout ELSE 0

----------------------------------------------------------------------------
(* The schedule library's jobs *)

NoJob == [fn |-> "none", step |-> 0, job |-> 0]

\* schedule.every(n).minutes.do(f) at time t: next_run = now + period
Job(f, minutes, t) ==
  [job_func |-> f, interval |-> minutes * 60, last_run |-> -1,
   next_run |-> t + minutes * 60]

\* lines 229-231
Registered(t) ==
  << Job("job_quick_sync", QuickMinutes, t),
     Job("job_full_sync", FullMinutes, t),
     Job("check_server", HealthMinutes, t) >>

\* Job.should_run: datetime.now() >= self.next_run
should_run(job, t) == t >= job.next_run

\* insert job index i into s, ascending by next_run, after the entries with a
\* next_run <= its own (sorted() is stable; Job.__lt__ compares next_run)
RECURSIVE InsertByNextRun(_, _, _)
InsertByNextRun(i, s, js) ==
  IF s = <<>> THEN <<i>>
  ELSE IF js[Head(s)].next_run <= js[i].next_run
       THEN <<Head(s)>> \o InsertByNextRun(i, Tail(s), js)
       ELSE <<i>> \o s

RECURSIVE SortedFrom(_, _, _, _)
SortedFrom(js, t, k, acc) ==
  IF k > Len(js) THEN acc
  ELSE IF should_run(js[k], t) THEN SortedFrom(js, t, k + 1, InsertByNextRun(k, acc, js))
       ELSE SortedFrom(js, t, k + 1, acc)

\* variant: the runnable jobs are taken in registration order
RunnableInRegistrationOrder(js, t) ==
  SelectSeq([i \in 1..Len(js) |-> i], LAMBDA i : should_run(js[i], t))

\* run_pending(): sorted(job for job in self.jobs if job.should_run)
SortedRunnable(js, t) == SortedFrom(js, t, 1, <<>>)

\* variant: the next run is counted from the due time, catching up missed slots
JobAfterRunCatchingUp(job, t) ==
  [job EXCEPT !.last_run = t, !.next_run = job.next_run + job.interval]

\* Job.run(): after job_func returns, last_run = now and next_run = now + period
JobAfterRun(job, t) == [job EXCEPT !.last_run = t, !.next_run = t + job.interval]

----------------------------------------------------------------------------
(* State after construction *)

NoData == [none |-> TRUE]
NoHealth == [called |-> FALSE, result |-> FALSE]
NoProbe == [kind |-> "none", status |-> 0, body |-> "invalid"]
NoTick == [time |-> -1, since |-> <<>>, next_run |-> <<>>, ran |-> <<>>]

\* a file: path is its home-relative path, <<directory, k>>, k the position
\* of the file in rglob order
File(name, dir, k, suffix, mtime) ==
  [name |-> name, dir |-> dir, path |-> <<dir, k>>, suffix |-> suffix, mtime |-> mtime]

\* the home directory of the agent's host while the loop runs
HomeListings ==
  { <<>>,
    << File("todo.txt", "Documents", 1, ".txt", -100),
       File("old.iso", "Downloads", 2, ".iso", -(DaySeconds + 100)),
       File("draft.md", "Notes", 3, ".md", -50) >> }

\* everything but the configuration and the environment
Boot ==
  /\ now = 0
  /\ jobs = <<>>
  /\ queue = <<>>
  /\ cur = NoJob
  /\ executing = {}
  /\ cache = [s \in Sources |-> Absent]
  /\ collected = NoData
  /\ healthy = NoHealth
  /\ last = NoCall
  /\ stored = [s \in Sources |-> NoData]
  /\ jobLog = <<>>
  /\ startupLog = <<>>
  /\ startupSyncs = 0
  /\ registered_at = -1
  /\ anyScheduled = FALSE
  /\ tick = NoTick
  /\ probe = NoProbe

Init ==
  /\ Boot
  /\ pc = "check"
  /\ tz = UTC
  /\ fs \in HomeListings
  /\ psutil \in BOOLEAN
  /\ PRIVACY_MODE \in BOOLEAN
  /\ CLIENT_ID \in {"", "client-1"}
  /\ horizon = MaxTime

----------------------------------------------------------------------------
(* main(), the jobs and the scheduler loop *)

\* variant: main() goes from the health check straight to the registration
MainSkipsStartupSync == "register"

\* main() line 226: after the first check_server() comes job_full_sync()
MainAfterCheck == "startup"

\* the job function returns at time t: to main() for the start-up call, to
\* Job.run() (which reschedules the job) for a scheduled one
Returned(t) ==
  /\ cur' = NoJob
  /\ executing' = executing \ {cur.job}
  /\ IF cur.job = 0
     THEN /\ pc' = "register"
          /\ jobs' = jobs
     ELSE /\ jobs' = [jobs EXCEPT ![cur.job] = JobAfterRun(@, t)]
          /\ pc' = IF queue = <<>> THEN "sleep" ELSE "running"

\* an uncaught exception unwinds job, run_pending() and main(): the process ends
Raised ==
  /\ pc' = "exited"
  /\ UNCHANGED <<cur, executing, jobs>>

\* push_context(source, collector()) as statement of the running job; the
\* collector took `elapsed` seconds; `final` when it is the job's last statement
Deliver(source, data, elapsed, final) ==
  \E w \in WriteOutcomes, o \in PostOutcomes :
    LET t == now + elapsed
        r == push_context(source, data, t, w, o)
        t2 == IF r.posts # <<>> THEN t + PostElapsed(o) ELSE t
    IN  /\ collected' = data
        /\ cache' = Store(cache, source, data, t, w)
        /\ stored' = IF w = "ok" THEN [stored EXCEPT ![source] = [data |-> data, at |-> t]]
                     ELSE stored
        /\ last' = r
        /\ now' = t2
        /\ jobLog' = IF r.raised THEN jobLog
                     ELSE Append(jobLog, [source |-> source,
                                          failed |-> r.log \in {"push_failed", "network_error"}])
        /\ startupLog' = IF cur.job = 0 /\ ~r.raised THEN Append(startupLog, source)
                         ELSE startupLog
        /\ IF r.raised THEN Raised
           ELSE IF final THEN Returned(t2)
           ELSE /\ cur' = [cur EXCEPT !.step = @ + 1]
                /\ UNCHANGED <<pc, jobs, executing>>
        /\ UNCHANGED <<tz, fs, psutil, PRIVACY_MODE, CLIENT_ID, queue, healthy,
                       startupSyncs, registered_at, anyScheduled, tick, probe, horizon>>

InJob(fn, step) == pc \in {"startup", "running"} /\ cur.fn = fn /\ cur.step = step

ScanDurations == {0, SlowScan}

\* line 182
job_full_sync_system_info ==
  /\ InJob("job_full_sync", 1)
  /\ \E d \in SystemInfoSamples : Deliver("system_info", d, SystemInfoDuration, FALSE)

\* line 185
job_full_sync_local_files ==
  /\ InJob("job_full_sync", 2)
  /\ \E e \in ScanDurations : Deliver("local_files", collect_local_files(fs, now), e, FALSE)

\* line 188
job_full_sync_local_notes ==
  /\ InJob("job_full_sync", 3)
  /\ Deliver("local_notes", collect_notes(fs), 0, TRUE)

\* line 194
job_quick_sync ==
  /\ InJob("job_quick_sync", 1)
  /\ \E d \in SystemInfoSamples : Deliver("system_info", d, SystemInfoDuration, TRUE)

\* lines 196-209: check_server(), called by main() at line 223 (the start-up
\* full sync is entered next, line 226) and as the scheduled job
check_server_call ==
  /\ pc = "check" \/ InJob("check_server", 1)
  /\ \E o \in HealthOutcomes :
       /\ healthy' = [called |-> TRUE, result |-> check_server(o)]
       /\ now' = now + HealthElapsed(o)
  /\ IF pc = "check"
     THEN /\ pc' = MainAfterCheck
          /\ jobs' = jobs
          /\ IF pc' = "startup"
             THEN /\ cur' = [fn |-> "job_full_sync", step |-> 1, job |-> 0]
                  /\ executing' = executing \cup {0}
                  /\ startupSyncs' = startupSyncs + 1
             ELSE UNCHANGED <<cur, executing, startupSyncs>>
     ELSE /\ Returned(now')
          /\ startupSyncs' = startupSyncs
  /\ UNCHANGED <<tz, fs, psutil, PRIVACY_MODE, CLIENT_ID, queue, cache, collected,
                 last, stored, jobLog, startupLog, registered_at, anyScheduled,
                 tick, probe, horizon>>

\* lines 229-233
Register ==
  /\ pc = "register"
  /\ jobs' = Registered(now)
  /\ registered_at' = now
  /\ pc' = "pending"
  /\ UNCHANGED <<now, tz, fs, psutil, PRIVACY_MODE, CLIENT_ID, queue, cur, executing,
                 cache, collected, healthy, last, stored, jobLog, startupLog,
                 startupSyncs, anyScheduled, tick, probe, horizon>>

\* line 235: run_pending() decides which jobs run, and in which order
RunPending ==
  /\ pc = "pending"
  /\ queue' = SortedRunnable(jobs, now)
  /\ tick' = [time |-> now,
              since |-> [i \in 1..Len(jobs) |->
                           IF jobs[i].last_run = -1 THEN registered_at
                           ELSE jobs[i].last_run],
              next_run |-> [i \in 1..Len(jobs) |-> jobs[i].next_run],
              ran |-> <<>>]
  /\ pc' = IF queue' = <<>> THEN "sleep" ELSE "running"
  /\ UNCHANGED <<now, tz, fs, psutil, PRIVACY_MODE, CLIENT_ID, jobs, cur, executing,
                 cache, collected, healthy, last, stored, jobLog, startupLog,
                 startupSyncs, registered_at, anyScheduled, probe, horizon>>

\* run_pending() calls the next job of its list: Job.run() enters job_func
RunJob ==
  /\ pc = "running"
  /\ cur = NoJob
  /\ queue # <<>>
  /\ cur' = [fn |-> jobs[Head(queue)].job_func, step |-> 1, job |-> Head(queue)]
  /\ executing' = executing \cup {Head(queue)}
  /\ queue' = Tail(queue)
  /\ tick' = [tick EXCEPT !.ran = Append(@, Head(queue))]
  /\ jobLog' = <<>>
  /\ last' = NoCall
  /\ anyScheduled' = TRUE
  /\ UNCHANGED <<now, tz, fs, psutil, PRIVACY_MODE, CLIENT_ID, pc, jobs, cache,
                 collected, healthy, stored, startupLog, startupSyncs,
                 registered_at, probe, horizon>>

\* line 236
Sleep ==
  /\ pc = "sleep"
  /\ now + SleepSeconds <= horizon
  /\ now' = now + SleepSeconds
  /\ pc' = "pending"
  /\ UNCHANGED <<tz, fs, psutil, PRIVACY_MODE, CLIENT_ID, jobs, queue, cur, executing,
                 cache, collected, healthy, last, stored, jobLog, startupLog,
                 startupSyncs, registered_at, anyScheduled, tick, probe, horizon>>

Next ==
  \/ check_server_call
  \/ job_full_sync_system_info
  \/ job_full_sync_local_files
  \/ job_full_sync_local_notes
  \/ job_quick_sync
  \/ Register
  \/ RunPending
  \/ RunJob
  \/ Sleep

Spec == Init /\ [][Next]_vars

\* the same program observed for half an hour and more, with remote delivery
\* switched off (privacy mode): no HTTP POST, so jobs are slow only by their scans
InitLong ==
  /\ Boot
  /\ pc = "check"
  /\ tz = UTC
  /\ fs \in HomeListings
  /\ psutil \in BOOLEAN
  /\ PRIVACY_MODE = TRUE
  /\ CLIENT_ID = "client-1"
  /\ horizon = MaxLongTime

SpecLong == InitLong /\ [][Next]_vars

----------------------------------------------------------------------------
(* check_server() against every answer of the health endpoint *)

InitHealth ==
  /\ Boot
  /\ pc = "probe"
  /\ tz = UTC
  /\ fs = <<>>
  /\ psutil = FALSE
  /\ PRIVACY_MODE = FALSE
  /\ CLIENT_ID = "client-1"
  /\ horizon = 0

\* the server's state changes between two health checks
ServerAnswers ==
  /\ pc = "probe"
  /\ probe' \in HealthOutcomes
  /\ pc' = "request"
  /\ UNCHANGED <<now, tz, fs, psutil, PRIVACY_MODE, CLIENT_ID, jobs, queue, cur,
                 executing, cache, collected, healthy, last, stored, jobLog,
                 startupLog, startupSyncs, registered_at, anyScheduled, tick, horizon>>

\* lines 196-209 on the answer `probe`
HealthCheck ==
  /\ pc = "request"
  /\ healthy' = [called |-> TRUE, result |-> check_server(probe)]
  /\ pc' = "probe"
  /\ UNCHANGED <<now, tz, fs, psutil, PRIVACY_MODE, CLIENT_ID, jobs, queue, cur,
                 executing, cache, collected, last, stored, jobLog, startupLog,
                 startupSyncs, registered_at, anyScheduled, tick, probe, horizon>>

NextHealth == ServerAnswers \/ HealthCheck

SpecHealth == InitHealth /\ [][NextHealth]_vars

----------------------------------------------------------------------------
(* collect_local_files() against the contents of a watched directory *)

\* a zone whose clocks went back one hour 4000 seconds ago
FallBack == [transition |-> -4000, before |-> 3600, after |-> 0]

\* modification times: before the cutoff, at it, and within the last day on
\* both sides of the zone's transition
MTimes == {-(DaySeconds + 60), -DaySeconds, -5000, -3000, -60}

InitFiles ==
  /\ Boot
  /\ pc = "scan"
  /\ tz \in {UTC, FallBack}
  /\ fs = <<>>
  /\ psutil = FALSE
  /\ PRIVACY_MODE = TRUE
  /\ CLIENT_ID = ""
  /\ horizon = 0

Singles == Len(SelectSeq(fs, LAMBDA f : f.name = "f"))

\* one file is written to Documents
CreateFile ==
  /\ pc \in {"scan", "scanned"}
  /\ Singles < MaxListed
  /\ \E m \in MTimes : fs' = Append(fs, File("f", "Documents", Len(fs) + 1, ".txt", m))
  /\ pc' = "scan"
  /\ collected' = NoData
  /\ UNCHANGED <<now, tz, psutil, PRIVACY_MODE, CLIENT_ID, jobs, queue, cur,
                 executing, cache, healthy, last, stored, jobLog,
                 startupLog, startupSyncs, registered_at, anyScheduled, tick,
                 probe, horizon>>

\* an archive is unpacked to Downloads: its members share one modification time
ExtractArchive ==
  /\ pc = "scan"
  /\ fs = <<>>
  /\ \E m \in MTimes : fs' = [k \in 1..BulkFiles |-> File("a", "Downloads", k, ".dat", m)]
  /\ UNCHANGED <<now, tz, psutil, PRIVACY_MODE, CLIENT_ID, pc, jobs, queue, cur,
                 executing, cache, collected, healthy, last, stored, jobLog,
                 startupLog, startupSyncs, registered_at, anyScheduled, tick,
                 probe, horizon>>

\* lines 100-134
CollectFiles ==
  /\ pc = "scan"
  /\ collected' = collect_local_files(fs, now)
  /\ pc' = "scanned"
  /\ UNCHANGED <<now, tz, fs, psutil, PRIVACY_MODE, CLIENT_ID, jobs, queue, cur,
                 executing, cache, healthy, last, stored, jobLog, startupLog,
                 startupSyncs, registered_at, anyScheduled, tick, probe, horizon>>

NextFiles == CreateFile \/ ExtractArchive \/ CollectFiles

SpecFiles == InitFiles /\ [][NextFiles]_vars

----------------------------------------------------------------------------
(* Properties *)

AllSources == <<"system_info", "local_files", "local_notes">>
LogSources(log) == [i \in 1..Len(log) |-> log[i].source]
NetworkEnabled == ~PRIVACY_MODE /\ CLIENT_ID # ""
Called == last.source # "none"

\* C1: after a push_context call whose cache write succeeded, a POST was issued
\* iff privacy mode is off and the client identity is non-empty; then exactly one,
\* carrying {client_id, source, data}; otherwise none; either way the cache file
\* of the source holds the data of the call.
C1_PostIffEnabled ==
  (Called /\ last.written = "ok") =>
    /\ (last.posts # <<>>) <=> (~PRIVACY_MODE /\ CLIENT_ID # "")
    /\ Len(last.posts) <= 1
    /\ \A i \in 1..Len(last.posts) :
         last.posts[i] = [client_id |-> CLIENT_ID, source |-> last.source, data |-> last.data]
    /\ cache[last.source] = [kind |-> "json", data |-> last.data, updated_at |-> last.at]

C1_Witness ==
  /\ Called /\ last.written = "ok" /\ Len(last.posts) = 1
  /\ last.source = "local_files"

\* C2: the process never leaves the scheduler loop by an error.
C2_NoErrorExitsProcess == pc # "exited"

FailedDelivery(o) ==
  \/ o.kind \in {"ConnectionError", "Timeout"}
  \/ o.kind = "response" /\ ~(200 <= o.status /\ o.status < 300)

\* C3: a POST that ends in a non-2xx status or a network-level failure does not
\* raise, leaves the cache file written, is not repeated, and the job goes on
\* with its next statement; a full sync that returns has delivered all three
\* sources.
C3_DeliveryFailureNotFatal ==
  /\ (Called /\ FailedDelivery(last.outcome)) =>
       /\ ~last.raised
       /\ pc # "exited"
       /\ Len(last.posts) = 1
       /\ cache[last.source] = [kind |-> "json", data |-> last.data, updated_at |-> last.at]
       /\ IF last.caller = "job_full_sync" /\ last.step < 3
          THEN cur.fn = "job_full_sync" /\ cur.step = last.step + 1
          ELSE cur = NoJob
  /\ (Called /\ last.caller = "job_full_sync" /\ last.step = 3 /\ ~last.raised
        /\ cur = NoJob) =>
       LogSources(jobLog) = AllSources

C3_Witness ==
  /\ pc # "exited"
  /\ Len(jobLog) = 3
  /\ jobLog[1].source = "system_info" /\ jobLog[1].failed
  /\ jobLog[3].source = "local_notes"

\* C4: the cache write precedes any network call of a push_context call; when
\* it fails the call raises, no POST is issued, and the job stops at that
\* statement.
C4_CacheWriteFirstAndLoud ==
  /\ \A i \in 1..Len(last.effects) :
       last.effects[i] = "post" => \E j \in 1..(i - 1) : last.effects[j] = "cache_write"
  /\ (Called /\ last.written # "ok") =>
       /\ last.raised
       /\ last.posts = <<>>
       /\ pc = "exited"
       /\ cur.fn = last.caller /\ cur.step = last.step
       /\ Len(jobLog) = last.step - 1

C4_Witness ==
  /\ NetworkEnabled
  /\ Called /\ last.written = "write_failed"
  /\ last.caller = "job_full_sync" /\ last.step = 2 /\ cur.job = 2

Interval(j) == CASE j = 1 -> 60 [] j = 2 -> 300 [] j = 3 -> 1800

DueAtTick(j) == tick.time - tick.since[j] >= Interval(j)
DueTime(j) == tick.since[j] + Interval(j)
TickJobs == 1..Len(tick.since)
Ran == {tick.ran[i] : i \in 1..Len(tick.ran)}

\* C5 as stated: the jobs due on a tick run on it, in registration order.
C5_RegistrationOrder ==
  /\ \A i \in 1..Len(tick.ran) : DueAtTick(tick.ran[i])
  /\ \A i, j \in 1..Len(tick.ran) : i < j => tick.ran[i] < tick.ran[j]
  /\ pc = "sleep" => \A j \in TickJobs : DueAtTick(j) => j \in Ran

\* C5 amended: on a tick only jobs run whose interval has elapsed since their
\* last run (since registration for a job not run yet); they run in ascending
\* order of due time (last run + interval), registration order deciding between
\* equal due times; when run_pending() returns, every job due at its start has run.
C5_DueTimeOrder ==
  /\ \A i \in 1..Len(tick.ran) : DueAtTick(tick.ran[i])
  /\ \A i, j \in 1..Len(tick.ran) : i < j =>
       \/ DueTime(tick.ran[i]) < DueTime(tick.ran[j])
       \/ DueTime(tick.ran[i]) = DueTime(tick.ran[j]) /\ tick.ran[i] < tick.ran[j]
  /\ pc = "sleep" => \A j \in TickJobs : DueAtTick(j) => j \in Ran

C5_Witness ==
  /\ pc = "sleep"
  /\ Len(tick.ran) = 2
  /\ tick.ran[1] > tick.ran[2]
  /\ DueTime(tick.ran[1]) < DueTime(tick.ran[2])

\* C6: one job executes at a time; a job runs at most once per tick, also when
\* several of its intervals have passed, and its next due time is its interval
\* after that run.
C6_NoCatchUpNoOverlap ==
  /\ Cardinality(executing) <= 1
  /\ cur.fn # "none" => executing = {cur.job}
  /\ \A i, j \in 1..Len(tick.ran) : i # j => tick.ran[i] # tick.ran[j]
  /\ \A j \in 1..Len(jobs) :
       jobs[j].last_run # -1 => jobs[j].next_run = jobs[j].last_run + Interval(j)
  /\ pc = "sleep" => \A j \in Ran : jobs[j].next_run >= tick.time + Interval(j)

C6_Witness ==
  /\ pc = "sleep"
  /\ 1 \in Ran
  /\ tick.time - DueTime(1) >= 2 * Interval(1)

\* C7: main() runs one full sync (system_info, local_files, local_notes) before
\* it registers the jobs and before any scheduled job runs; a scheduled full
\* sync runs no earlier than five minutes after the registration.
C7_StartupSyncOnceBeforeLoop ==
  /\ startupSyncs <= 1
  /\ (pc \in {"register", "pending", "running", "sleep"} \/ jobs # <<>> \/ anyScheduled) =>
       /\ startupSyncs = 1
       /\ startupLog = AllSources
  /\ (cur.fn = "job_full_sync" /\ cur.job # 0) => tick.time >= registered_at + 300
  /\ \A j \in 1..Len(jobs) : jobs[j].last_run # -1 => jobs[j].last_run >= registered_at + Interval(j)

C7_Witness ==
  /\ cur.fn = "job_full_sync" /\ cur.job = 2 /\ cur.step = 2
  /\ startupLog = AllSources

Status2xx(o) == o.kind = "response" /\ 200 <= o.status /\ o.status < 300
JsonObject(o) == o.body \in {"object", "bare"}
Checked == healthy.called /\ pc = "probe"

\* C8 as stated: check_server() returns False on a non-2xx status and on any
\* exception, True on a 2xx answer whose JSON body may lack version and db.
C8_FalseUnless2xx ==
  Checked =>
    /\ healthy.result \in BOOLEAN
    /\ ~Status2xx(probe) => ~healthy.result
    /\ (probe.kind # "response" \/ ~JsonObject(probe)) => ~healthy.result
    /\ (Status2xx(probe) /\ JsonObject(probe)) => healthy.result

\* C8 amended: check_server() returns True exactly when the request is answered
\* with a status that is not an error status (not 4xx or 5xx) and a body that
\* parses to a JSON object, with or without version and db; False otherwise.
C8_TrueIffOkAndJsonObject ==
  Checked =>
    /\ healthy.result \in BOOLEAN
    /\ healthy.result <=>
         /\ probe.kind = "response"
         /\ probe.status < 400
         /\ probe.body \in {"object", "bare"}

C8_Witness ==
  /\ Checked
  /\ probe.kind = "response" /\ probe.status = 200 /\ probe.body = "bare"
  /\ healthy.result

Scanned == pc = "scanned"
Recent == collected.recent_files
FileAt(path) == fs[path[2]]
Matching == {i \in 1..Len(fs) : fs[i].mtime > now - 86400}
Min(a, b) == IF a < b THEN a ELSE b

C10_CacheHoldsLastStore ==
  \A s \in Sources :
    stored[s] # NoData =>
      cache[s] = [kind |-> "json", data |-> stored[s].data, updated_at |-> stored[s].at]

====
